---- MODULE Spec2Model ----
(***************************************************************************)
(* Canvas-Backend: the users and leads collections of the document store   *)
(* and the request handlers of routes/leads.py and routes/users.py that    *)
(* read and write them.  Every handler runs to completion on one request,  *)
(* so each handler is one action; the authenticated caller is the user     *)
(* document as get_current_user_from_token reads it at request time.       *)
(***************************************************************************)
EXTENDS Integers, Sequences, FiniteSets, TLC

\* ------------------------------------------------------------ bounds
\* Leads that may be stored.
MaxLeads == 2
\* Requests that change the store (refused requests change nothing).
MaxReq == 3
\* User-administration requests are explored among the first MaxUserReq
\* store-changing requests.
MaxUserReq == 2
\* Largest number of points a user of the scenario starts with.
MaxBaseline == 5
\* Competitions that may be stored.
MaxCompetitions == 1
\* The clock runs from 0 to MaxTime.
MaxTime == 3
\* Requests that create or update a competition.
MaxCompReq == 2

\* ------------------------------------------------------------ values
None == "None"

\* An optional number, flag or document: absent, or one value.
Absent == <<>>
Some(v) == <<v>>

Roles == {"super_admin", "admin_manager", "manager", "canvasser"}

Orgs == {"org_1", "org_2"}

Users == {"root", "adm1", "adm2", "mgr1", "can1"}

\* Request inputs.
SaleAmounts == {-150, 199, 1000}
SaleDates == {None, "2024-01-01"}
Priorities == {5}
RejectionReasons == {None, "duplicate"}
ApprovalNotes == {None, "verified"}
NewPasswords == {"pw1"}
\* The worker processes that serve requests side by side.
Workers == {"w1", "w2"}

\* HTTP statuses the handlers answer with.
OK == "200_OK"
BadRequest == "400_BAD_REQUEST"
Forbidden == "403_FORBIDDEN"
NotFound == "404_NOT_FOUND"
InternalError == "500_INTERNAL_SERVER_ERROR"

VARIABLES users, leads, created_points, nreq, competitions, now, pending,
          organizations, projects, response, rewards, redemptions, tokens

vars == <<users, leads, created_points, nreq, competitions, now, pending,
          organizations, projects, response, rewards, redemptions, tokens>>

\* The competitions collection, the clock and the requests in flight: the
\* lead and account requests leave them alone.
comp_vars == <<competitions, now, pending>>

\* The rewards and redemptions collections of the point store.
reward_vars == <<rewards, redemptions>>

\* The organizations and projects collections, the answer to the latest
\* request, kept where a claim is about the answer, the point store, and the
\* users who hold a token, kept where a claim is about the token: the lead,
\* account and competition requests leave them alone.
ext_vars == <<organizations, projects, response, rewards, redemptions, tokens>>

\* ------------------------------------------------------------ helpers

\* organization_id.split('_')[-1] if '_' in organization_id else "001"
OrgNumber(org) ==
    CASE org = "org_1" -> "1"
      [] org = "org_2" -> "2"
      [] org = "east_1" -> "1"
      [] org = "default_org" -> "org"
      [] OTHER -> "001"

CountLeads(org) == Cardinality({i \in 1..Len(leads) : leads[i].organization_id = org})

\* f"LEAD_{org_number}_{str(count + 1).zfill(4)}"
generate_lead_id(org) == <<"LEAD", OrgNumber(org), CountLeads(org) + 1>>

LeadIds == {leads[i].lead_id : i \in 1..Len(leads)}

\* Mutant: the commission is rounded to the nearest point.
CommissionPoints_rounded(sale_amount) == (sale_amount + 50) \div 100

\* int(sale_amount * 0.01): Python's int() drops the fraction, towards zero.
CommissionPoints(sale_amount) ==
    IF sale_amount >= 0 THEN sale_amount \div 100 ELSE -((-sale_amount) \div 100)

\* superstar_data.priority_level * 10
BonusPoints(priority_level) == priority_level * 10

\* Mutant: an approval awards the creation points once more.
ApprovalPoints_as_creation == 5 + 5

\* Points awarded for creating a lead (canvassers only) and for an approval.
CreationPoints == 10
ApprovalPoints == 25

HistEntry(action, points, reason, lead_id, detail, old_value, new_value) ==
    [action |-> action, points |-> points, reason |-> reason, lead_id |-> lead_id,
     detail |-> detail, old_value |-> old_value, new_value |-> new_value]

\* update_one({"username": u}, {"$inc": {"points": p}, "$push": {"points_history": e}})
AwardPoints(us, u, p, reason, lead_id, detail) ==
    IF u \in Users
    THEN [us EXCEPT ![u].points = @ + p,
                    ![u].points_history =
                        Append(@, HistEntry("add", p, reason, lead_id, detail, Absent, Absent))]
    ELSE us

check_lead_access(current_user, lead) ==
    CASE users[current_user].role = "super_admin" -> TRUE
      [] users[current_user].role = "admin_manager" ->
            lead.organization_id = users[current_user].organization_id
      [] users[current_user].role = "manager" ->
            /\ lead.organization_id = users[current_user].organization_id
            /\ lead.created_by \in Users
            /\ users[lead.created_by].manager_id = current_user
      [] users[current_user].role = "canvasser" -> lead.created_by = current_user
      [] OTHER -> FALSE

\* ------------------------------------------------------------ initial state

InitUser(role, org, manager_id) ==
    [role |-> role, organization_id |-> org, manager_id |-> manager_id,
     points |-> 0, points_history |-> <<>>, is_active |-> TRUE, password |-> "pw0"]

InitUsers ==
    [u \in Users |->
        CASE u = "root" -> InitUser("super_admin", None, None)
          [] u = "adm1" -> InitUser("admin_manager", "org_1", None)
          [] u = "adm2" -> InitUser("admin_manager", "org_1", None)
          [] u = "mgr1" -> InitUser("manager", "org_1", None)
          [] u = "can1" -> InitUser("canvasser", "org_1", "mgr1")]

\* The rewards of the point store: one with a stock of one piece, one with
\* no limit of stock (stock_quantity None).
Rewards == {"cap", "card"}

InitRewards ==
    [r \in Rewards |->
        IF r = "cap"
        THEN [points_required |-> 50, stock_quantity |-> Some(1),
              status |-> "available", is_active |-> TRUE]
        ELSE [points_required |-> 30, stock_quantity |-> Absent,
              status |-> "available", is_active |-> TRUE]]

\* get_organization_limits(plan): the caps of each plan, -1 for unlimited.
get_organization_limits(plan) ==
    CASE plan = "professional" -> [max_projects |-> 50, max_users |-> 50]
      [] plan = "enterprise" -> [max_projects |-> -1, max_users |-> -1]
      [] OTHER -> [max_projects |-> 10, max_users |-> 10]

\* An organization as create_organization stores it.
InitOrganization(plan) ==
    [plan |-> plan, plan_limits |-> get_organization_limits(plan), is_active |-> TRUE]

\* The collections besides users, leads and competitions start empty, with
\* both organizations on the basic plan.
InitExt ==
    /\ organizations = [o \in Orgs |-> InitOrganization("basic")]
    /\ projects = <<>>
    /\ response = None
    /\ rewards = InitRewards
    /\ redemptions = <<>>
    /\ tokens = {}

Init ==
    /\ users = InitUsers
    /\ leads = <<>>
    /\ created_points = [u \in Users |-> 0]
    /\ nreq = 0
    /\ competitions = <<>>
    /\ now = 0
    /\ pending = [w \in Workers |-> Absent]
    /\ InitExt

\* ------------------------------------------------------------ leads

\* Mutant: only a super_admin's lead starts approved.
InitialStatus_super_only(role) ==
    IF role = "super_admin" THEN "approved" ELSE "pending"

\* The role decides the status a new lead is stored with.
InitialStatus(role) ==
    IF role \in {"super_admin", "admin_manager"} THEN "approved" ELSE "pending"

\* generate_lead_id(None) raises, as does the insert of a lead_id the unique
\* index already holds: both are caught and answered with 500.
create_lead_status(current_user) ==
    IF users[current_user].organization_id = None
       \/ generate_lead_id(users[current_user].organization_id) \in LeadIds
    THEN InternalError
    ELSE OK

\* lead_doc as create_lead_with_notifications inserts it.
lead_doc(current_user, lead_id) ==
    LET cu == users[current_user]
        admin == cu.role \in {"super_admin", "admin_manager"}
    IN  [lead_id |-> lead_id,
         lead_status |-> InitialStatus(cu.role),
         created_by |-> current_user,
         organization_id |-> cu.organization_id,
         assigned_manager |-> IF cu.role = "canvasser" THEN cu.manager_id ELSE None,
         approved_by |-> IF admin THEN current_user ELSE None,
         approval_timestamp |-> IF admin THEN "now" ELSE None,
         approval_notes |-> None,
         rejection_reason |-> None,
         sale_amount |-> Absent,
         sale_date |-> None,
         sold_by |-> None,
         superstar_info |-> Absent]

create_lead_with_notifications(current_user) ==
    LET cu == users[current_user]
        lead_id == generate_lead_id(cu.organization_id)
    IN  IF create_lead_status(current_user) # OK
        THEN UNCHANGED vars
        ELSE
            /\ Len(leads) < MaxLeads
            /\ nreq < MaxReq
            /\ leads' = Append(leads, lead_doc(current_user, lead_id))
            /\ users' = IF cu.role = "canvasser"
                        THEN AwardPoints(users, current_user, CreationPoints,
                                         "Created lead", lead_id, Absent)
                        ELSE users
            /\ nreq' = nreq + 1
            /\ UNCHANGED created_points

ApproverRoles == {"super_admin", "admin_manager", "manager"}

\* Mutant: the pending check is missing.
approve_lead_status_nopending(current_user, l) ==
    IF l > Len(leads) THEN NotFound
    ELSE IF users[current_user].role \notin ApproverRoles THEN Forbidden
    ELSE OK

approve_lead_status(current_user, l) ==
    IF l > Len(leads) THEN NotFound
    ELSE IF users[current_user].role \notin ApproverRoles THEN Forbidden
    ELSE IF leads[l].lead_status # "pending" THEN BadRequest
    ELSE OK

\* The fields approve_lead sets on the lead.
ApprovalUpdate(lead, current_user, approve, rejection_reason, notes) ==
    LET base == [lead EXCEPT !.approved_by = current_user,
                             !.approval_timestamp = "now"]
    IN  IF approve
        THEN [base EXCEPT !.lead_status = "approved",
                          !.approval_notes = IF notes # None THEN notes ELSE @]
        ELSE [base EXCEPT !.lead_status = "cancelled",
                          !.rejection_reason = rejection_reason]

\* Mutant: a rejection awards the bonus too.
UsersAfterApproval_always(lead, approve) ==
    IF lead.created_by # None
    THEN AwardPoints(users, lead.created_by, 25, "Lead approved", lead.lead_id, Absent)
    ELSE users

\* The users collection after approve_lead: an approval awards the bonus to
\* the lead's creator, a rejection awards nothing.
UsersAfterApproval(lead, approve) ==
    IF approve /\ lead.created_by # None
    THEN AwardPoints(users, lead.created_by, ApprovalPoints,
                     "Lead approved", lead.lead_id, Absent)
    ELSE users

approve_lead(current_user, l, approve, rejection_reason, notes) ==
    IF approve_lead_status(current_user, l) # OK
    THEN UNCHANGED vars
    ELSE
        /\ nreq < MaxReq
        /\ users' = UsersAfterApproval(leads[l], approve)
        /\ leads' = [leads EXCEPT ![l] =
                        ApprovalUpdate(leads[l], current_user, approve,
                                       rejection_reason, notes)]
        /\ nreq' = nreq + 1
        /\ UNCHANGED created_points

mark_lead_sold_status(current_user, l) ==
    IF l > Len(leads) THEN NotFound
    ELSE IF ~check_lead_access(current_user, leads[l]) THEN Forbidden
    ELSE OK

mark_lead_sold(current_user, l, sale_amount, sale_date) ==
    IF mark_lead_sold_status(current_user, l) # OK
    THEN UNCHANGED vars
    ELSE
        LET lead == leads[l]
            commission_points == CommissionPoints(sale_amount)
        IN  /\ nreq < MaxReq
            /\ leads' = [leads EXCEPT ![l] =
                            [lead EXCEPT !.lead_status = "sold",
                                         !.sale_amount = Some(sale_amount),
                                         !.sale_date = IF sale_date # None
                                                       THEN sale_date ELSE "now",
                                         !.sold_by = current_user]]
            /\ users' = IF lead.created_by # None
                        THEN AwardPoints(users, lead.created_by, commission_points,
                                         "Lead sold", lead.lead_id, Some(sale_amount))
                        ELSE users
            /\ nreq' = nreq + 1
            /\ UNCHANGED created_points

mark_superstar_lead_status(current_user, l) ==
    IF l > Len(leads) THEN NotFound
    ELSE IF users[current_user].role \notin ApproverRoles THEN Forbidden
    ELSE OK

mark_superstar_lead(current_user, l, priority_level) ==
    IF mark_superstar_lead_status(current_user, l) # OK
    THEN UNCHANGED vars
    ELSE
        LET lead == leads[l]
            bonus_points == BonusPoints(priority_level)
        IN  /\ nreq < MaxReq
            /\ leads' = [leads EXCEPT ![l] =
                            [lead EXCEPT !.lead_status = "superstar",
                                         !.superstar_info =
                                            Some([priority_level |-> priority_level,
                                                  marked_by |-> current_user])]]
            /\ users' = IF lead.created_by # None
                        THEN AwardPoints(users, lead.created_by, bonus_points,
                                         "Superstar lead", lead.lead_id, Some(priority_level))
                        ELSE users
            /\ nreq' = nreq + 1
            /\ UNCHANGED created_points

\* ------------------------------------------------------------ users

NoUpdate ==
    [role |-> None, organization_id |-> None, manager_id |-> None,
     is_active |-> Absent, points |-> Absent]

\* The update requests explored: no field, or one field, provided.
UserUpdates ==
    {NoUpdate}
    \cup {[NoUpdate EXCEPT !.role = r] : r \in Roles}
    \cup {[NoUpdate EXCEPT !.organization_id = o] : o \in {"org_2"}}
    \cup {[NoUpdate EXCEPT !.manager_id = m] : m \in {"adm2"}}
    \cup {[NoUpdate EXCEPT !.is_active = Some(b)] : b \in BOOLEAN}
    \cup {[NoUpdate EXCEPT !.points = Some(p)] : p \in {40}}
    \cup {[NoUpdate EXCEPT !.role = "manager", !.organization_id = "org_2"]}

\* ROLE-BASED UPDATE PERMISSIONS
can_update(current_user, target) ==
    LET cu == users[current_user]
        tu == users[target]
    IN  CASE cu.role = "super_admin" -> TRUE
          [] cu.role = "admin_manager" ->
                /\ tu.organization_id = cu.organization_id
                /\ \/ tu.role \notin {"super_admin", "admin_manager"}
                   \/ tu.role = "admin_manager" /\ target = current_user
          [] cu.role = "manager" ->
                \/ target = current_user
                \/ tu.manager_id = current_user /\ tu.role = "canvasser"
          [] cu.role = "canvasser" -> target = current_user
          [] OTHER -> FALSE

\* Mutant: an admin_manager may assign admin_manager too.
RoleChangePermissions_admin_peer(role) ==
    CASE role = "super_admin" -> {"super_admin", "admin_manager", "manager", "canvasser"}
      [] role = "admin_manager" -> {"admin_manager", "manager", "canvasser"}
      [] OTHER -> {}

\* role_change_permissions
RoleChangePermissions(role) ==
    CASE role = "super_admin" -> {"super_admin", "admin_manager", "manager", "canvasser"}
      [] role = "admin_manager" -> {"manager", "canvasser"}
      [] OTHER -> {}

RoleChanged(target, req) == req.role # None /\ req.role # users[target].role

OrgChanged(target, req) ==
    req.organization_id # None /\ req.organization_id # users[target].organization_id

ActiveChanged(target, req) ==
    req.is_active # Absent /\ req.is_active[1] # users[target].is_active

PointsChanged(target, req) ==
    req.points # Absent /\ req.points[1] # users[target].points

\* The fields update_data collects.
UpdatedFields(target, req) ==
    (IF RoleChanged(target, req) THEN {"role"} ELSE {})
    \cup (IF OrgChanged(target, req) THEN {"organization_id"} ELSE {})
    \cup (IF req.manager_id # None THEN {"manager_id"} ELSE {})
    \cup (IF ActiveChanged(target, req) THEN {"is_active"} ELSE {})
    \cup (IF PointsChanged(target, req) THEN {"points"} ELSE {})

update_user_status(current_user, target, req) ==
    LET current_role == users[current_user].role
    IN  IF ~can_update(current_user, target) THEN Forbidden
        ELSE IF RoleChanged(target, req)
                /\ req.role \notin RoleChangePermissions(current_role) THEN Forbidden
        ELSE IF current_role = "canvasser" /\ req # NoUpdate THEN Forbidden
        ELSE IF OrgChanged(target, req) /\ current_role # "super_admin" THEN Forbidden
        ELSE IF ActiveChanged(target, req)
                /\ current_role \notin {"super_admin", "admin_manager"} THEN Forbidden
        ELSE IF PointsChanged(target, req)
                /\ current_role \notin {"super_admin", "admin_manager", "manager"}
             THEN Forbidden
        ELSE IF UpdatedFields(target, req) = {} THEN BadRequest
        ELSE OK

update_user(current_user, target, req) ==
    IF update_user_status(current_user, target, req) # OK
    THEN UNCHANGED vars
    ELSE
        LET tu == users[target]
            f == UpdatedFields(target, req)
            updated ==
                [tu EXCEPT
                    !.role = IF "role" \in f THEN req.role ELSE @,
                    !.organization_id =
                        IF "organization_id" \in f THEN req.organization_id ELSE @,
                    !.manager_id = IF "manager_id" \in f THEN req.manager_id ELSE @,
                    !.is_active = IF "is_active" \in f THEN req.is_active[1] ELSE @,
                    !.points = IF "points" \in f THEN req.points[1] ELSE @,
                    !.points_history =
                        IF "points" \in f
                        THEN Append(@, HistEntry("update", req.points[1] - tu.points,
                                                 "Manual update via API", None, Absent,
                                                 Some(tu.points), Some(req.points[1])))
                        ELSE @]
        IN  /\ nreq < MaxUserReq
            /\ users' = [users EXCEPT ![target] = updated]
            /\ nreq' = nreq + 1
            /\ UNCHANGED <<leads, created_points>>

AdminRoles == {"super_admin", "admin_manager"}

\* The organization check delete_user, reactivate_user and
\* reset_user_password make for an admin_manager.
SameOrgForAdmin(current_user, target) ==
    users[current_user].role = "admin_manager"
        => users[target].organization_id = users[current_user].organization_id

delete_user_status(current_user, target) ==
    IF users[current_user].role \notin AdminRoles THEN Forbidden
    ELSE IF ~SameOrgForAdmin(current_user, target) THEN Forbidden
    ELSE IF ~users[target].is_active THEN BadRequest
    ELSE IF target = current_user THEN BadRequest
    ELSE OK

delete_user(current_user, target) ==
    IF delete_user_status(current_user, target) # OK
    THEN UNCHANGED vars
    ELSE /\ nreq < MaxUserReq
         /\ users' = [users EXCEPT ![target].is_active = FALSE]
         /\ nreq' = nreq + 1
         /\ UNCHANGED <<leads, created_points>>

reactivate_user_status(current_user, target) ==
    IF users[current_user].role \notin AdminRoles THEN Forbidden
    ELSE IF ~SameOrgForAdmin(current_user, target) THEN Forbidden
    ELSE IF users[target].is_active THEN BadRequest
    ELSE OK

reactivate_user(current_user, target) ==
    IF reactivate_user_status(current_user, target) # OK
    THEN UNCHANGED vars
    ELSE /\ nreq < MaxUserReq
         /\ users' = [users EXCEPT ![target].is_active = TRUE]
         /\ nreq' = nreq + 1
         /\ UNCHANGED <<leads, created_points>>

reset_user_password_status(current_user, target) ==
    IF users[current_user].role \notin AdminRoles THEN Forbidden
    ELSE IF ~SameOrgForAdmin(current_user, target) THEN Forbidden
    ELSE OK

reset_user_password(current_user, target, new_password) ==
    IF reset_user_password_status(current_user, target) # OK
    THEN UNCHANGED vars
    ELSE /\ nreq < MaxUserReq
         /\ users' = [users EXCEPT ![target].password = new_password]
         /\ nreq' = nreq + 1
         /\ UNCHANGED <<leads, created_points>>

\* ------------------------------------------------------------ requests

CreateLead == \E a \in Users : create_lead_with_notifications(a)

\* An approval carries notes, a rejection carries a reason.
ApproveLead ==
    \E a \in Users, l \in 1..MaxLeads :
        \/ \E n \in ApprovalNotes : approve_lead(a, l, TRUE, None, n)
        \/ \E r \in RejectionReasons : approve_lead(a, l, FALSE, r, None)

MarkLeadSold ==
    \E a \in Users, l \in 1..MaxLeads, amt \in SaleAmounts, d \in SaleDates :
        mark_lead_sold(a, l, amt, d)

MarkSuperstarLead ==
    \E a \in Users, l \in 1..MaxLeads, p \in Priorities :
        mark_superstar_lead(a, l, p)

UpdateUser == \E a \in Users, t \in Users, req \in UserUpdates : update_user(a, t, req)

DeleteUser == \E a \in Users, t \in Users : delete_user(a, t)

ReactivateUser == \E a \in Users, t \in Users : reactivate_user(a, t)

ResetUserPassword ==
    \E a \in Users, t \in Users, pw \in NewPasswords : reset_user_password(a, t, pw)

\* Requests are explored until MaxReq of them have changed the store.
Next ==
    /\ nreq < MaxReq
    /\ \/ CreateLead
       \/ ApproveLead
       \/ MarkLeadSold
       \/ MarkSuperstarLead
       \/ UpdateUser
       \/ DeleteUser
       \/ ReactivateUser
       \/ ResetUserPassword
    /\ UNCHANGED comp_vars
    /\ UNCHANGED ext_vars

Spec == Init /\ [][Next]_vars

\* ------------------------------------------------------------ scenario
\* The life of one lead: a canvasser who has a manager creates it, that
\* manager approves it, an admin_manager of the lead's organization marks it
\* sold.  The canvasser starts with any number of points up to MaxBaseline.

InitScenario ==
    \E b \in 0..MaxBaseline :
        /\ users = [InitUsers EXCEPT !["can1"].points = b]
        /\ created_points = [u \in Users |-> IF u = "can1" THEN b ELSE 0]
        /\ leads = <<>>
        /\ nreq = 0
        /\ competitions = <<>>
        /\ now = 0
        /\ pending = [w \in Workers |-> Absent]
        /\ InitExt

ScenarioCreate ==
    /\ nreq = 0
    /\ \E c \in Users :
        /\ users[c].role = "canvasser"
        /\ users[c].manager_id \in Users
        /\ create_lead_with_notifications(c)

ScenarioApprove ==
    /\ nreq = 1
    /\ \E n \in ApprovalNotes :
        approve_lead(users[leads[1].created_by].manager_id, 1, TRUE, None, n)

ScenarioSell ==
    /\ nreq = 2
    /\ \E a \in Users, amt \in SaleAmounts, d \in SaleDates :
        /\ users[a].role = "admin_manager"
        /\ users[a].organization_id = leads[1].organization_id
        /\ mark_lead_sold(a, 1, amt, d)

NextScenario ==
    /\ \/ ScenarioCreate
       \/ ScenarioApprove
       \/ ScenarioSell
    /\ UNCHANGED comp_vars
    /\ UNCHANGED ext_vars

SpecScenario == InitScenario /\ [][NextScenario]_vars

\* ------------------------------------------------------------ user accounts
\* create_user and hard_delete_user change the set of stored users: here the
\* users collection is a function on the usernames stored, DOMAIN users.

\* The create requests explored: a fresh or a taken username, every role,
\* every organization_id or none, a manager_id that names a manager, nobody
\* stored, or none.
UserCreates ==
    [username : {"new1", "can1"},
     role : Roles,
     organization_id : {None} \cup Orgs,
     manager_id : {None, "mgr1", "ghost"}]

\* Mutant: a manager may create managers too.
role_permissions_manager_peer(role) ==
    CASE role = "super_admin" -> {"super_admin", "admin_manager", "manager", "canvasser"}
      [] role = "admin_manager" -> {"manager", "canvasser"}
      [] role = "manager" -> {"manager", "canvasser"}
      [] OTHER -> {}

role_permissions(role) ==
    CASE role = "super_admin" -> {"super_admin", "admin_manager", "manager", "canvasser"}
      [] role = "admin_manager" -> {"manager", "canvasser"}
      [] role = "manager" -> {"canvasser"}
      [] OTHER -> {}

create_user_status(current_user, req) ==
    LET cu == users[current_user]
    IN  IF req.role \notin role_permissions(cu.role) THEN Forbidden
        ELSE IF cu.role = "admin_manager" /\ req.organization_id = None THEN BadRequest
        ELSE IF cu.role = "admin_manager"
                /\ req.organization_id # cu.organization_id THEN Forbidden
        ELSE IF cu.role = "manager" /\ req.organization_id # None
                /\ req.organization_id # cu.organization_id THEN Forbidden
        ELSE IF req.username \in DOMAIN users THEN BadRequest
        ELSE OK

\* user_doc as create_user inserts it.
user_doc(current_user, req) ==
    LET cu == users[current_user]
    IN  [role |-> req.role,
         organization_id |->
             IF cu.role = "manager" /\ req.organization_id = None
             THEN cu.organization_id ELSE req.organization_id,
         manager_id |-> IF cu.role = "manager" THEN current_user ELSE req.manager_id,
         points |-> 0, points_history |-> <<>>, is_active |-> TRUE,
         password |-> "pw0", created_by |-> current_user]

create_user(current_user, req) ==
    IF create_user_status(current_user, req) # OK
    THEN UNCHANGED vars
    ELSE /\ users' = (req.username :> user_doc(current_user, req)) @@ users
         /\ created_points' = (req.username :> 0) @@ created_points
         /\ nreq' = nreq + 1
         /\ UNCHANGED leads

hard_delete_user_status(current_user, target, confirm) ==
    IF users[current_user].role # "super_admin" THEN Forbidden
    ELSE IF ~confirm THEN BadRequest
    ELSE IF target \notin DOMAIN users THEN NotFound
    ELSE IF target = current_user THEN BadRequest
    ELSE OK

\* The leads of the deleted user are kept under an anonymous username.
Anonymized(lead, username) ==
    [lead EXCEPT
        !.created_by = IF @ = username THEN "deleted_user" ELSE @,
        !.approved_by = IF @ = username THEN "deleted_user" ELSE @]

hard_delete_user(current_user, target, confirm) ==
    IF hard_delete_user_status(current_user, target, confirm) # OK
    THEN UNCHANGED vars
    ELSE /\ leads' = [i \in 1..Len(leads) |-> Anonymized(leads[i], target)]
         /\ users' = [u \in DOMAIN users \ {target} |-> users[u]]
         /\ created_points' = [u \in DOMAIN users \ {target} |-> created_points[u]]
         /\ nreq' = nreq + 1

CreateUser == \E a \in DOMAIN users, req \in UserCreates : create_user(a, req)

\* The update requests explored with the account requests: those of role,
\* organization_id and manager_id.
AccountUpdates == {req \in UserUpdates : req.is_active = Absent /\ req.points = Absent}

UpdateStoredUser ==
    \E a \in DOMAIN users, t \in DOMAIN users, req \in AccountUpdates :
        update_user(a, t, req)

HardDeleteUser ==
    \E a \in DOMAIN users, t \in DOMAIN users \cup {"ghost"}, confirm \in BOOLEAN :
        hard_delete_user(a, t, confirm)

\* Account requests are explored until MaxUserReq of them have changed the
\* store.
NextUsers ==
    /\ nreq < MaxUserReq
    /\ \/ CreateUser
       \/ UpdateStoredUser
       \/ HardDeleteUser
    /\ UNCHANGED comp_vars
    /\ UNCHANGED ext_vars

SpecUsers == Init /\ [][NextUsers]_vars

\* ------------------------------------------------------------ interrupted requests
\* approve_lead, mark_lead_sold and mark_superstar_lead each make two
\* update_one calls, one on the users and one on the leads collection, with
\* no transaction around them.  An exception raised after the first call
\* (the store failing, or int(sale_amount * 0.01) raising on an infinite
\* sale_amount) is answered with 500 and leaves the first write in place.

\* approve_lead awards the creator first and updates the lead second.
approve_lead_interrupted(current_user, l, approve) ==
    /\ approve_lead_status(current_user, l) = OK
    /\ approve /\ leads[l].created_by # None
    /\ users' = UsersAfterApproval(leads[l], approve)
    /\ nreq' = nreq + 1
    /\ UNCHANGED <<leads, created_points>>

\* mark_lead_sold updates the lead first and awards the creator second.
mark_lead_sold_interrupted(current_user, l, sale_amount, sale_date) ==
    /\ mark_lead_sold_status(current_user, l) = OK
    /\ leads' = [leads EXCEPT ![l] =
                    [@ EXCEPT !.lead_status = "sold",
                              !.sale_amount = Some(sale_amount),
                              !.sale_date = IF sale_date # None THEN sale_date ELSE "now",
                              !.sold_by = current_user]]
    /\ nreq' = nreq + 1
    /\ UNCHANGED <<users, created_points>>

\* mark_superstar_lead updates the lead first and awards the creator second.
mark_superstar_lead_interrupted(current_user, l, priority_level) ==
    /\ mark_superstar_lead_status(current_user, l) = OK
    /\ leads' = [leads EXCEPT ![l] =
                    [@ EXCEPT !.lead_status = "superstar",
                              !.superstar_info =
                                 Some([priority_level |-> priority_level,
                                       marked_by |-> current_user])]]
    /\ nreq' = nreq + 1
    /\ UNCHANGED <<users, created_points>>

ApproveLeadInterrupted ==
    \E a \in Users, l \in 1..Len(leads) : approve_lead_interrupted(a, l, TRUE)

MarkLeadSoldInterrupted ==
    \E a \in Users, l \in 1..Len(leads), amt \in SaleAmounts, d \in SaleDates :
        mark_lead_sold_interrupted(a, l, amt, d)

MarkSuperstarLeadInterrupted ==
    \E a \in Users, l \in 1..Len(leads), p \in Priorities :
        mark_superstar_lead_interrupted(a, l, p)

NextInterrupted ==
    /\ nreq < MaxReq
    /\ \/ CreateLead
       \/ ApproveLead
       \/ MarkLeadSold
       \/ MarkSuperstarLead
       \/ ApproveLeadInterrupted
       \/ MarkLeadSoldInterrupted
       \/ MarkSuperstarLeadInterrupted
    /\ UNCHANGED comp_vars
    /\ UNCHANGED ext_vars

SpecInterrupted == Init /\ [][NextInterrupted]_vars

\* ------------------------------------------------------------ competitions
\* A competition is addressed by its index in the collection.  Dates are
\* points of the clock `now`.

\* selected_participants as a request carries it: none, or a list of
\* usernames ("ghost" names no stored user).
ParticipantLists ==
    {Absent, Some(<<>>), Some(<<"can1">>), Some(<<"can1", "mgr1">>), Some(<<"ghost">>)}

\* The create requests explored; target_roles keeps its default.
CompetitionCreates ==
    [start_date : {1}, end_date : {1, 2}, prize_points : {50},
     min_participants : {1, 2},
     participant_selection_mode : {"all", "specific"},
     selected_participants : ParticipantLists]

NoCompetitionUpdate ==
    [end_date |-> Absent, participant_selection_mode |-> None,
     selected_participants |-> Absent]

\* The update requests explored: no field, the mode, the list, both, or the
\* end date.
CompetitionUpdates ==
    {NoCompetitionUpdate}
    \cup {[NoCompetitionUpdate EXCEPT !.participant_selection_mode = m] :
            m \in {"all", "specific"}}
    \cup {[NoCompetitionUpdate EXCEPT !.selected_participants = ps] :
            ps \in ParticipantLists \ {Absent}}
    \cup {[NoCompetitionUpdate EXCEPT !.participant_selection_mode = "specific",
                                      !.selected_participants = ps] :
            ps \in ParticipantLists \ {Absent}}
    \cup {[NoCompetitionUpdate EXCEPT !.end_date = Some(3)]}

\* The documents a find() returns, as a list.
RECURSIVE ListOf(_)
ListOf(S) ==
    IF S = {} THEN <<>>
    ELSE LET x == CHOOSE y \in S : TRUE IN <<x>> \o ListOf(S \ {x})

\* Who may create and update competitions.
check_competition_permission(current_user) ==
    users[current_user].role \in {"super_admin", "admin_manager"}

\* The effective participants of a competition: the selected usernames as
\* stored when the mode is specific, otherwise the active users of the
\* organization whose role is one of target_roles.
get_competition_participants(competition) ==
    IF competition.participant_selection_mode = "specific"
    THEN IF competition.selected_participants = Absent THEN <<>>
         ELSE competition.selected_participants[1]
    ELSE ListOf({u \in Users :
                    /\ users[u].is_active
                    /\ users[u].organization_id = competition.organization_id
                    /\ users[u].role \in competition.target_roles})

\* find_one({"username": username, "organization_id": org, "is_active": True})
ValidParticipant(username, org) ==
    /\ username \in Users
    /\ users[username].organization_id = org
    /\ users[username].is_active

AllValid(list, org) == \A i \in 1..Len(list) : ValidParticipant(list[i], org)

\* "Determine status based on dates"
StatusFromDates(start_date, end_date) ==
    IF start_date > now THEN "upcoming"
    ELSE IF end_date < now THEN "completed"
    ELSE "active"

\* The answer of create_competition when it refuses before insert_one.
create_competition_refusal(current_user, req) ==
    LET cu == users[current_user]
    IN  IF ~check_competition_permission(current_user) THEN Forbidden
        ELSE IF req.end_date <= req.start_date THEN BadRequest
        ELSE IF cu.organization_id = None THEN BadRequest
        ELSE IF req.participant_selection_mode = "specific"
                /\ \/ req.selected_participants \in {Absent, Some(<<>>)}
                   \/ Len(req.selected_participants[1]) < req.min_participants
             THEN BadRequest
        ELSE IF req.participant_selection_mode = "specific"
                /\ ~AllValid(req.selected_participants[1], cu.organization_id)
             THEN BadRequest
        ELSE OK

competition_doc(current_user, req) ==
    [organization_id |-> users[current_user].organization_id,
     status |-> StatusFromDates(req.start_date, req.end_date),
     start_date |-> req.start_date,
     end_date |-> req.end_date,
     prize_points |-> req.prize_points,
     target_roles |-> {"canvasser"},
     min_participants |-> req.min_participants,
     participant_selection_mode |-> req.participant_selection_mode,
     selected_participants |-> req.selected_participants,
     created_by |-> current_user]

\* The answer of create_competition: the participant count is checked after
\* insert_one.
create_competition_status(current_user, req) ==
    IF create_competition_refusal(current_user, req) # OK
    THEN create_competition_refusal(current_user, req)
    ELSE IF Len(get_competition_participants(competition_doc(current_user, req)))
                < req.min_participants
         THEN BadRequest
    ELSE OK

create_competition(current_user, req) ==
    IF create_competition_refusal(current_user, req) # OK
    THEN UNCHANGED vars
    ELSE /\ Len(competitions) < MaxCompetitions
         /\ competitions' = Append(competitions, competition_doc(current_user, req))
         /\ nreq' = nreq + 1
         /\ UNCHANGED <<users, leads, created_points, now, pending>>

update_competition_status(current_user, c, req) ==
    IF ~check_competition_permission(current_user) THEN Forbidden
    ELSE IF c > Len(competitions) THEN NotFound
    ELSE IF users[current_user].role # "super_admin"
            /\ competitions[c].organization_id # users[current_user].organization_id
         THEN Forbidden
    ELSE IF competitions[c].status = "completed" THEN BadRequest
    ELSE IF /\ req.selected_participants # Absent
            /\ \/ req.participant_selection_mode = "specific"
               \/ competitions[c].participant_selection_mode = "specific"
            /\ ~AllValid(req.selected_participants[1], competitions[c].organization_id)
         THEN BadRequest
    ELSE IF req = NoCompetitionUpdate THEN BadRequest
    ELSE OK

\* update_data: only the fields the request provides are set; nothing looks
\* at min_participants.
update_competition(current_user, c, req) ==
    IF update_competition_status(current_user, c, req) # OK
    THEN UNCHANGED vars
    ELSE /\ competitions' = [competitions EXCEPT ![c] =
              [@ EXCEPT
                 !.end_date = IF req.end_date # Absent THEN req.end_date[1] ELSE @,
                 !.participant_selection_mode =
                     IF req.participant_selection_mode # None
                     THEN req.participant_selection_mode ELSE @,
                 !.selected_participants =
                     IF req.selected_participants # Absent
                     THEN req.selected_participants ELSE @]]
         /\ nreq' = nreq + 1
         /\ UNCHANGED <<users, leads, created_points, now, pending>>

update_competition_participants_status(current_user, c, participant_usernames) ==
    IF users[current_user].role \notin {"super_admin", "admin_manager"} THEN Forbidden
    ELSE IF c > Len(competitions) THEN NotFound
    ELSE IF users[current_user].role # "super_admin"
            /\ competitions[c].organization_id # users[current_user].organization_id
         THEN Forbidden
    ELSE IF competitions[c].status = "completed" THEN BadRequest
    ELSE IF ~AllValid(participant_usernames, competitions[c].organization_id)
         THEN BadRequest
    ELSE IF Len(participant_usernames) < competitions[c].min_participants THEN BadRequest
    ELSE OK

update_competition_participants(current_user, c, participant_usernames) ==
    IF update_competition_participants_status(current_user, c, participant_usernames) # OK
    THEN UNCHANGED vars
    ELSE /\ competitions' = [competitions EXCEPT ![c] =
              [@ EXCEPT !.participant_selection_mode = "specific",
                        !.selected_participants = Some(participant_usernames)]]
         /\ nreq' = nreq + 1
         /\ UNCHANGED <<users, leads, created_points, now, pending>>

\* What get_competition_details answers for a competition the caller may
\* see: the status field is the stored one.
get_competition_details(c) ==
    [status |-> competitions[c].status,
     participant_count |-> Len(get_competition_participants(competitions[c]))]

get_competition_leaderboard_status(current_user, c) ==
    IF c > Len(competitions) THEN NotFound
    ELSE IF users[current_user].role # "super_admin"
            /\ competitions[c].organization_id # users[current_user].organization_id
         THEN Forbidden
    ELSE OK

\* First half of get_competition_leaderboard_enhanced, in worker w: find_one
\* reads the competition, the participants are resolved and the statistics
\* computed, one of the participants leading them.
leaderboard_read(w, current_user, c) ==
    /\ pending[w] = Absent
    /\ get_competition_leaderboard_status(current_user, c) = OK
    /\ get_competition_participants(competitions[c]) # <<>>
    /\ \E i \in 1..Len(get_competition_participants(competitions[c])) :
          pending' = [pending EXCEPT ![w] =
              Some([competition_id |-> c,
                    competition |-> competitions[c],
                    winner |-> get_competition_participants(competitions[c])[i]])]
    /\ UNCHANGED <<users, leads, created_points, nreq, competitions, now>>

\* Whether the leaderboard request completes the competition it read.
ShouldComplete(competition) ==
    competition.status = "active" /\ now > competition.end_date

\* Second half, in worker w: "Check if competition should be completed" on
\* the document read before, then the update of the competition and the
\* award to the winner.
leaderboard_complete(w) ==
    /\ pending[w] # Absent
    /\ LET r == pending[w][1]
       IN  IF ShouldComplete(r.competition)
           THEN /\ competitions' = [competitions EXCEPT ![r.competition_id].status =
                                       "completed"]
                /\ users' = IF r.competition.prize_points > 0
                            THEN AwardPoints(users, r.winner, r.competition.prize_points,
                                             "Won competition", None,
                                             Some(r.competition_id))
                            ELSE users
                /\ nreq' = nreq + 1
           ELSE UNCHANGED <<competitions, users, nreq>>
    /\ pending' = [pending EXCEPT ![w] = Absent]
    /\ UNCHANGED <<leads, created_points, now>>

\* Time passes.
Tick ==
    /\ now < MaxTime
    /\ now' = now + 1
    /\ UNCHANGED <<users, leads, created_points, nreq, competitions, pending>>

CreateCompetition ==
    \E a \in Users, req \in CompetitionCreates : create_competition(a, req)

UpdateCompetition ==
    \E a \in Users, c \in 1..Len(competitions), req \in CompetitionUpdates :
        update_competition(a, c, req)

UpdateCompetitionParticipants ==
    \E a \in Users, c \in 1..Len(competitions), ps \in ParticipantLists \ {Absent} :
        update_competition_participants(a, c, ps[1])

LeaderboardRead ==
    \E w \in Workers, a \in Users, c \in 1..Len(competitions) : leaderboard_read(w, a, c)

LeaderboardComplete == \E w \in Workers : leaderboard_complete(w)

NextCompetitions ==
    /\ \/ Tick
       \/ LeaderboardRead
       \/ LeaderboardComplete
       \/ /\ nreq < MaxCompReq
          /\ \/ CreateCompetition
             \/ UpdateCompetition
             \/ UpdateCompetitionParticipants
    /\ UNCHANGED ext_vars

SpecCompetitions == Init /\ [][NextCompetitions]_vars

\* ------------------------------------------------------------ overlapping requests
\* update_user reads the target with find_one, decides and builds its update
\* on that document, and writes with update_one afterwards; a request served
\* by another worker may write in between.

\* First half of update_user, in worker w: the target is read and the
\* request checked against it.
update_user_read(w, current_user, target, req) ==
    /\ pending[w] = Absent
    /\ update_user_status(current_user, target, req) = OK
    /\ pending' = [pending EXCEPT ![w] =
          Some([current_user |-> current_user, target |-> target, req |-> req,
                target_user |-> users[target],
                update_data |-> UpdatedFields(target, req)])]
    /\ UNCHANGED <<users, leads, created_points, nreq, competitions, now>>

\* Second half, in worker w: $set of update_data, then $push of the
\* points_history entry computed from the document read before.
update_user_write(w) ==
    /\ pending[w] # Absent
    /\ LET r == pending[w][1]
           f == r.update_data
           old_points == r.target_user.points
       IN  users' = [users EXCEPT ![r.target] =
              [@ EXCEPT
                 !.role = IF "role" \in f THEN r.req.role ELSE @,
                 !.organization_id =
                     IF "organization_id" \in f THEN r.req.organization_id ELSE @,
                 !.manager_id = IF "manager_id" \in f THEN r.req.manager_id ELSE @,
                 !.is_active = IF "is_active" \in f THEN r.req.is_active[1] ELSE @,
                 !.points = IF "points" \in f THEN r.req.points[1] ELSE @,
                 !.points_history =
                     IF "points" \in f
                     THEN Append(@, HistEntry("update", r.req.points[1] - old_points,
                                              "Manual update via API", None, Absent,
                                              Some(old_points), Some(r.req.points[1])))
                     ELSE @]]
    /\ pending' = [pending EXCEPT ![w] = Absent]
    /\ nreq' = nreq + 1
    /\ UNCHANGED <<leads, created_points, competitions, now>>

\* The update requests explored side by side: those that edit points.
PointsEdits == {req \in UserUpdates : req.points # Absent}

UpdateUserRead ==
    \E w \in Workers, a \in Users, t \in Users, req \in PointsEdits :
        update_user_read(w, a, t, req)

UpdateUserWrite == \E w \in Workers : update_user_write(w)

\* The lead requests, each a single worker's, between the halves of
\* update_user requests.
LeadRequest ==
    /\ \/ CreateLead
       \/ ApproveLead
       \/ MarkLeadSold
       \/ MarkSuperstarLead
    /\ UNCHANGED comp_vars

NextOverlapping ==
    /\ nreq < MaxUserReq
    /\ \/ UpdateUserRead
       \/ UpdateUserWrite
       \/ LeadRequest
    /\ UNCHANGED ext_vars

SpecOverlapping == Init /\ [][NextOverlapping]_vars

\* ------------------------------------------------------------ plan limits
\* The plan of an organization caps its active users and its active
\* projects.  The organization org_1 starts with ten active users, the cap of
\* the basic plan, and with ProjectsAtStart active projects.

Fillers == {"can2", "can3", "can4", "can5", "can6", "can7"}

ProjectsAtStart == 9

MaxProjects == 11

Plans == {"basic", "professional", "enterprise"}

project_doc(org_id, created_by, n) ==
    [project_id |-> <<"PROJ", OrgNumber(org_id), n>>, organization_id |-> org_id,
     created_by |-> created_by, is_active |-> TRUE]

InitLimits ==
    /\ users = [u \in Fillers |-> InitUser("canvasser", "org_1", "mgr1")] @@ InitUsers
    /\ created_points = [u \in Users \cup Fillers |-> 0]
    /\ leads = <<>>
    /\ nreq = 0
    /\ competitions = <<>>
    /\ now = 0
    /\ pending = [w \in Workers |-> Absent]
    /\ \E plan \in {"basic", "enterprise"} :
          organizations = [o \in Orgs |-> InitOrganization(plan)]
    /\ projects = [n \in 1..ProjectsAtStart |-> project_doc("org_1", "adm1", n)]
    /\ response = None
    /\ rewards = InitRewards
    /\ redemptions = <<>>
    /\ tokens = {}

\* count_documents({"organization_id": organization_id, "is_active": True})
ActiveUsers(organization_id) ==
    Cardinality({u \in DOMAIN users :
                    users[u].organization_id = organization_id /\ users[u].is_active})

ActiveProjects(organization_id) ==
    Cardinality({i \in 1..Len(projects) :
                    projects[i].organization_id = organization_id /\ projects[i].is_active})

\* check_organization_limits(organization_id, limit_type, 1)["allowed"]
check_organization_limits(organization_id, limit_type) ==
    IF organization_id = None THEN TRUE
    ELSE IF organization_id \notin DOMAIN organizations THEN FALSE
    ELSE LET limit_value ==
                 IF limit_type = "max_projects"
                 THEN organizations[organization_id].plan_limits.max_projects
                 ELSE organizations[organization_id].plan_limits.max_users
             current_count ==
                 IF limit_type = "max_projects"
                 THEN ActiveProjects(organization_id)
                 ELSE ActiveUsers(organization_id)
         IN  limit_value = -1 \/ ~(current_count + 1 > limit_value)

\* check_project_permission(current_user, "create" | "delete")
check_project_permission(current_user) ==
    users[current_user].role \in {"super_admin", "admin_manager"}

\* The organization a new project goes to: the caller's, and for a
\* super_admin who has none the first active organization stored, or
\* "default_org" when there is none.
ProjectOrg(current_user) ==
    LET cu == users[current_user]
        active == {o \in DOMAIN organizations : organizations[o].is_active}
    IN  IF cu.role = "super_admin" /\ cu.organization_id = None
        THEN IF active = {} THEN "default_org"
             ELSE IF "org_1" \in active THEN "org_1"
             ELSE CHOOSE o \in active : TRUE
        ELSE cu.organization_id

create_project_status(current_user) ==
    LET org_id == ProjectOrg(current_user)
    IN  IF ~check_project_permission(current_user) THEN Forbidden
        ELSE IF org_id # None /\ org_id # "default_org"
                /\ ~check_organization_limits(org_id, "max_projects") THEN Forbidden
        ELSE OK

\* generate_project_id counts every project of the organization, deleted
\* ones included.
create_project(current_user) ==
    LET org_id == ProjectOrg(current_user)
        count == Cardinality({i \in 1..Len(projects) :
                                 projects[i].organization_id = org_id})
    IN  IF create_project_status(current_user) # OK
        THEN UNCHANGED vars
        ELSE /\ Len(projects) < MaxProjects
             /\ projects' = Append(projects, project_doc(org_id, current_user, count + 1))
             /\ nreq' = nreq + 1
             /\ UNCHANGED <<users, leads, created_points, organizations, response>>
             /\ UNCHANGED reward_vars
             /\ UNCHANGED tokens

delete_project_status(current_user, p) ==
    IF ~check_project_permission(current_user) THEN Forbidden
    ELSE IF p > Len(projects) THEN NotFound
    ELSE IF users[current_user].role # "super_admin"
            /\ projects[p].organization_id # users[current_user].organization_id
         THEN Forbidden
    ELSE OK

delete_project(current_user, p) ==
    IF delete_project_status(current_user, p) # OK
    THEN UNCHANGED vars
    ELSE /\ projects' = [projects EXCEPT ![p].is_active = FALSE]
         /\ nreq' = nreq + 1
         /\ UNCHANGED <<users, leads, created_points, organizations, response>>
         /\ UNCHANGED reward_vars
         /\ UNCHANGED tokens

upgrade_organization_plan_status(current_user, org_id) ==
    IF users[current_user].role # "super_admin" THEN Forbidden
    ELSE IF org_id \notin DOMAIN organizations THEN NotFound
    ELSE OK

upgrade_organization_plan(current_user, org_id, new_plan) ==
    IF upgrade_organization_plan_status(current_user, org_id) # OK
    THEN UNCHANGED vars
    ELSE /\ organizations' =
                [organizations EXCEPT ![org_id].plan = new_plan,
                                      ![org_id].plan_limits = get_organization_limits(new_plan)]
         /\ nreq' = nreq + 1
         /\ UNCHANGED <<users, leads, created_points, projects, response>>
         /\ UNCHANGED reward_vars
         /\ UNCHANGED tokens

\* The callers explored: one of each role.
LimitCallers == {"root", "adm1", "mgr1", "can1"}

CreateUserInPlan ==
    /\ \E a \in LimitCallers, req \in UserCreates : create_user(a, req)
    /\ UNCHANGED ext_vars

DeleteUserInPlan ==
    /\ \E a \in LimitCallers, t \in {"can1", "can2"} : delete_user(a, t)
    /\ UNCHANGED ext_vars

CreateProject == \E a \in LimitCallers : create_project(a)

DeleteProject == \E a \in LimitCallers, p \in {1, ProjectsAtStart + 1} : delete_project(a, p)

UpgradeOrganizationPlan ==
    \E a \in LimitCallers, o \in Orgs \cup {"ghost"}, new_plan \in Plans :
        upgrade_organization_plan(a, o, new_plan)

NextLimits ==
    /\ nreq < MaxReq
    /\ \/ CreateUserInPlan
       \/ DeleteUserInPlan
       \/ CreateProject
       \/ DeleteProject
       \/ UpgradeOrganizationPlan
    /\ UNCHANGED comp_vars

SpecLimits == InitLimits /\ [][NextLimits]_vars

\* ------------------------------------------------------------ lead ids
\* create_lead_with_notifications in two halves: generate_lead_id counts the
\* leads of the organization, then insert_one stores the lead under the
\* unique index on lead_id.  Requests of several workers overlap between the
\* halves.  The users of adm2's organization may be of any shape of id.

OrgShapes == {"org_1", "org_2", "east_1", "acme"}

InitLeadIds ==
    /\ \E o \in OrgShapes : users = [InitUsers EXCEPT !["adm2"].organization_id = o]
    /\ leads = <<>>
    /\ created_points = [u \in Users |-> 0]
    /\ nreq = 0
    /\ competitions = <<>>
    /\ now = 0
    /\ pending = [w \in Workers |-> Absent]
    /\ InitExt

\* First half, in worker w: the lead_id is generated from the count read.
create_lead_read(w, current_user) ==
    /\ pending[w] = Absent
    /\ users[current_user].organization_id # None
    /\ pending' = [pending EXCEPT ![w] =
          Some([current_user |-> current_user,
                lead_id |-> generate_lead_id(users[current_user].organization_id)])]
    /\ UNCHANGED <<users, leads, created_points, nreq, competitions, now>>
    /\ UNCHANGED ext_vars

\* Second half, in worker w: insert_one raises DuplicateKeyError on a lead_id
\* the index holds, which is answered with 500; else the lead is stored and a
\* canvasser is awarded.
create_lead_write(w) ==
    /\ pending[w] # Absent
    /\ LET r == pending[w][1]
       IN  IF r.lead_id \in LeadIds
           THEN /\ response' = InternalError
                /\ UNCHANGED <<users, leads, nreq>>
           ELSE /\ Len(leads) < MaxLeads
                /\ leads' = Append(leads, lead_doc(r.current_user, r.lead_id))
                /\ users' = IF users[r.current_user].role = "canvasser"
                            THEN AwardPoints(users, r.current_user, CreationPoints,
                                             "Created lead", r.lead_id, Absent)
                            ELSE users
                /\ nreq' = nreq + 1
                /\ response' = OK
    /\ pending' = [pending EXCEPT ![w] = Absent]
    /\ UNCHANGED <<created_points, competitions, now, organizations, projects>>
    /\ UNCHANGED reward_vars
    /\ UNCHANGED tokens

CreateLeadRead == \E w \in Workers, a \in Users : create_lead_read(w, a)

CreateLeadWrite == \E w \in Workers : create_lead_write(w)

NextLeadIds ==
    \/ CreateLeadRead
    \/ CreateLeadWrite

SpecLeadIds == InitLeadIds /\ [][NextLeadIds]_vars

\* ------------------------------------------------------------ notifications
\* create_lead_with_notifications with its dispatcher calls: after the lead
\* is stored and the creator awarded, notify_organization_users is called for
\* a caller of an organization and notify_competition_participants once for
\* every active competition of it.  A call returns or fails; a failure is an
\* exception in the handler's try block.

\* The dispatcher: a fire-and-forget call that delivers or fails.
notify_organization_users(delivered) == delivered

notify_competition_participants(delivered) == delivered

\* find({"status": "active", "start_date": {"$lte": now},
\*       "end_date": {"$gte": now}, "organization_id": ...})
active_competitions(organization_id) ==
    {c \in 1..Len(competitions) :
        /\ competitions[c].status = "active"
        /\ competitions[c].start_date <= now
        /\ competitions[c].end_date >= now
        /\ competitions[c].organization_id = organization_id}

\* Whether the notification part of the handler runs to its end.
NotificationsSent(current_user, org_delivered, comp_delivered) ==
    LET org == users[current_user].organization_id
    IN  /\ org # None => notify_organization_users(org_delivered)
        /\ active_competitions(org) # {} => notify_competition_participants(comp_delivered)

create_lead_notified(current_user, org_delivered, comp_delivered) ==
    LET cu == users[current_user]
        lead_id == generate_lead_id(cu.organization_id)
    IN  IF create_lead_status(current_user) # OK
        THEN /\ response' = InternalError
             /\ UNCHANGED <<users, leads, created_points, nreq, organizations, projects>>
             /\ UNCHANGED reward_vars
             /\ UNCHANGED tokens
        ELSE /\ Len(leads) < MaxLeads
             /\ leads' = Append(leads, lead_doc(current_user, lead_id))
             /\ users' = IF cu.role = "canvasser"
                         THEN AwardPoints(users, current_user, CreationPoints,
                                          "Created lead", lead_id, Absent)
                         ELSE users
             /\ nreq' = nreq + 1
             /\ response' =
                    IF NotificationsSent(current_user, org_delivered, comp_delivered)
                    THEN OK ELSE InternalError
             /\ UNCHANGED <<created_points, organizations, projects>>
             /\ UNCHANGED reward_vars
             /\ UNCHANGED tokens

\* The store starts with no competition or with one of org_1.
InitNotify ==
    /\ users = InitUsers
    /\ leads = <<>>
    /\ created_points = [u \in Users |-> 0]
    /\ nreq = 0
    /\ now = 1
    /\ \E req \in CompetitionCreates :
          competitions \in {<<>>, <<competition_doc("adm1", req)>>}
    /\ pending = [w \in Workers |-> Absent]
    /\ InitExt

CreateLeadNotified ==
    /\ \E a \in Users, org_delivered \in BOOLEAN, comp_delivered \in BOOLEAN :
          create_lead_notified(a, org_delivered, comp_delivered)
    /\ UNCHANGED comp_vars

TickNotify == Tick /\ UNCHANGED ext_vars

NextNotify ==
    \/ CreateLeadNotified
    \/ TickNotify

SpecNotify == InitNotify /\ [][NextNotify]_vars

\* ------------------------------------------------------------ overlapping approvals
\* approve_lead in two halves: find_one and the checks on the document read,
\* then the award and the update_one of the lead.  Requests of several
\* workers overlap between the halves.

\* First half, in worker w: the lead is read and found pending.
approve_lead_read(w, current_user, l, approve) ==
    /\ pending[w] = Absent
    /\ approve_lead_status(current_user, l) = OK
    /\ pending' = [pending EXCEPT ![w] =
          Some([current_user |-> current_user, l |-> l, lead |-> leads[l],
                approve |-> approve])]
    /\ UNCHANGED <<users, leads, created_points, nreq, competitions, now>>

\* Second half, in worker w: the $inc/$push on the creator, then the $set on
\* the lead, filtered by _id alone.
approve_lead_write(w) ==
    /\ pending[w] # Absent
    /\ LET r == pending[w][1]
       IN  /\ users' = UsersAfterApproval(r.lead, r.approve)
           /\ leads' = [leads EXCEPT ![r.l] =
                           ApprovalUpdate(leads[r.l], r.current_user, r.approve,
                                          None, None)]
    /\ nreq' = nreq + 1
    /\ pending' = [pending EXCEPT ![w] = Absent]
    /\ UNCHANGED <<created_points, competitions, now>>

ApproveLeadRead ==
    \E w \in Workers, a \in Users, l \in 1..Len(leads), approve \in BOOLEAN :
        approve_lead_read(w, a, l, approve)

ApproveLeadWrite == \E w \in Workers : approve_lead_write(w)

CreateLeadToApprove == CreateLead /\ UNCHANGED comp_vars

NextOverlappingApprovals ==
    /\ \/ CreateLeadToApprove
       \/ ApproveLeadRead
       \/ ApproveLeadWrite
    /\ UNCHANGED ext_vars

SpecOverlappingApprovals == Init /\ [][NextOverlappingApprovals]_vars

\* ------------------------------------------------------------ point store
\* redeem_reward and update_redemption_status on the rewards and redemptions
\* collections.  can1 starts with PointsAtStart points.

PointsAtStart == 60

MaxRedemptions == 2

MaxStatusUpdates == 4

RedemptionStatus == {"pending", "approved", "shipped", "delivered", "cancelled"}

InitRedemptions ==
    /\ users = [InitUsers EXCEPT !["can1"].points = PointsAtStart]
    /\ created_points = [u \in Users |-> IF u = "can1" THEN PointsAtStart ELSE 0]
    /\ leads = <<>>
    /\ nreq = 0
    /\ competitions = <<>>
    /\ now = 0
    /\ pending = [w \in Workers |-> Absent]
    /\ InitExt

\* f"REDEEM_{org_number}_{str(count + 1).zfill(4)}", for "global" without an
\* organization.
generate_redemption_id(organization_id) ==
    LET org == IF organization_id = None THEN "global" ELSE organization_id
    IN  <<"REDEEM", OrgNumber(org),
          Cardinality({i \in 1..Len(redemptions) :
                          redemptions[i].organization_id = org}) + 1>>

\* The checks of redeem_reward on the reward and on check_user_points.
redeem_reward_status(current_user, reward_id) ==
    IF reward_id \notin DOMAIN rewards THEN NotFound
    ELSE IF rewards[reward_id].status # "available" \/ ~rewards[reward_id].is_active
         THEN BadRequest
    ELSE IF rewards[reward_id].stock_quantity # Absent
            /\ rewards[reward_id].stock_quantity[1] <= 0 THEN BadRequest
    ELSE IF users[current_user].points < rewards[reward_id].points_required
         THEN BadRequest
    ELSE OK

redemption_doc(current_user, reward_id, redemption_id, points_required) ==
    [redemption_id |-> redemption_id, username |-> current_user,
     reward_id |-> reward_id, points_used |-> points_required,
     status |-> "pending", organization_id |-> users[current_user].organization_id]

\* The update_one of deduct_user_points: points are $set to the points read
\* less the price.
deduct_user_points(us, u, current_points, points, redemption_id) ==
    [us EXCEPT ![u].points = current_points - points,
               ![u].points_history =
                   Append(@, HistEntry("deduct", -points, "Redeemed reward", None,
                                       Some(redemption_id), Some(current_points),
                                       Some(current_points - points)))]

\* The update_one of refund_user_points.
refund_user_points(us, u, current_points, points, redemption_id) ==
    [us EXCEPT ![u].points = current_points + points,
               ![u].points_history =
                   Append(@, HistEntry("refund", points,
                                       "Refund for cancelled redemption", None,
                                       Some(redemption_id), Some(current_points),
                                       Some(current_points + points)))]

\* "Update stock if limited": $inc by -1, then out_of_stock at 0 or less.
StockTaken(rs, reward_id) ==
    IF rs[reward_id].stock_quantity = Absent THEN rs
    ELSE [rs EXCEPT ![reward_id].stock_quantity = Some(@[1] - 1),
                    ![reward_id].status =
                        IF rs[reward_id].stock_quantity[1] - 1 <= 0
                        THEN "out_of_stock" ELSE @]

\* "Restore stock if applicable": $inc by 1 and status available.
StockRestored(rs, reward_id) ==
    IF reward_id \notin DOMAIN rs \/ rs[reward_id].stock_quantity = Absent THEN rs
    ELSE [rs EXCEPT ![reward_id].stock_quantity = Some(@[1] + 1),
                    ![reward_id].status = "available"]

redeem_reward(current_user, reward_id) ==
    IF redeem_reward_status(current_user, reward_id) # OK
    THEN UNCHANGED vars
    ELSE LET price == rewards[reward_id].points_required
             redemption_id == generate_redemption_id(users[current_user].organization_id)
         IN  /\ Len(redemptions) < MaxRedemptions
             /\ users' = deduct_user_points(users, current_user,
                                            users[current_user].points, price,
                                            redemption_id)
             /\ redemptions' = Append(redemptions,
                                      redemption_doc(current_user, reward_id,
                                                     redemption_id, price))
             /\ rewards' = StockTaken(rewards, reward_id)
             /\ nreq' = nreq + 1
             /\ UNCHANGED <<leads, created_points, organizations, projects, response>>
             /\ UNCHANGED tokens

update_redemption_status_status(current_user, r) ==
    IF users[current_user].role \notin {"super_admin", "admin_manager"} THEN Forbidden
    ELSE IF r > Len(redemptions) THEN NotFound
    ELSE OK

update_redemption_status(current_user, r, new_status) ==
    IF update_redemption_status_status(current_user, r) # OK
    THEN UNCHANGED vars
    ELSE LET redemption == redemptions[r]
             cancels == new_status = "cancelled" /\ redemption.status # "cancelled"
         IN  /\ nreq < MaxStatusUpdates
             /\ users' = IF cancels
                         THEN refund_user_points(users, redemption.username,
                                                 users[redemption.username].points,
                                                 redemption.points_used,
                                                 redemption.redemption_id)
                         ELSE users
             /\ rewards' = IF cancels THEN StockRestored(rewards, redemption.reward_id)
                           ELSE rewards
             /\ redemptions' = [redemptions EXCEPT ![r].status = new_status]
             /\ nreq' = nreq + 1
             /\ UNCHANGED <<leads, created_points, organizations, projects, response>>
             /\ UNCHANGED tokens

RedeemReward == \E a \in Users, reward_id \in Rewards \cup {"ghost"} : redeem_reward(a, reward_id)

UpdateRedemptionStatus ==
    \E a \in Users, r \in 1..MaxRedemptions, new_status \in RedemptionStatus :
        update_redemption_status(a, r, new_status)

NextRedemptions ==
    /\ \/ RedeemReward
       \/ UpdateRedemptionStatus
    /\ UNCHANGED comp_vars

SpecRedemptions == InitRedemptions /\ [][NextRedemptions]_vars

\* ------------------------------------------------------------ overlapping redemptions
\* redeem_reward in three parts: the reads and checks of the reward and of
\* check_user_points, the find_one of deduct_user_points with its check, and
\* the writes (the $set of the points, the insert of the redemption, the $inc
\* of the stock).  Requests of several workers overlap between the parts.

\* First part, in worker w: reward and points pass the checks.
redeem_reward_read(w, current_user, reward_id) ==
    /\ pending[w] = Absent
    /\ redeem_reward_status(current_user, reward_id) = OK
    /\ pending' = [pending EXCEPT ![w] =
          Some([current_user |-> current_user, reward_id |-> reward_id,
                points_required |-> rewards[reward_id].points_required,
                redemption_id |->
                    generate_redemption_id(users[current_user].organization_id),
                current_points |-> Absent])]
    /\ UNCHANGED <<users, leads, created_points, nreq, competitions, now>>
    /\ UNCHANGED ext_vars

\* Second part, in worker w: deduct_user_points reads the user; with too few
\* points it returns False and the request ends with 400.
deduct_user_points_read(w) ==
    /\ pending[w] # Absent
    /\ pending[w][1].current_points = Absent
    /\ LET r == pending[w][1]
           current_points == users[r.current_user].points
       IN  pending' = [pending EXCEPT ![w] =
               IF current_points < r.points_required THEN Absent
               ELSE Some([r EXCEPT !.current_points = Some(current_points)])]
    /\ UNCHANGED <<users, leads, created_points, nreq, competitions, now>>
    /\ UNCHANGED ext_vars

\* Third part, in worker w: the writes.
redeem_reward_write(w) ==
    /\ pending[w] # Absent
    /\ pending[w][1].current_points # Absent
    /\ Len(redemptions) < MaxRedemptions
    /\ LET r == pending[w][1]
       IN  /\ users' = deduct_user_points(users, r.current_user, r.current_points[1],
                                          r.points_required, r.redemption_id)
           /\ redemptions' = Append(redemptions,
                                    redemption_doc(r.current_user, r.reward_id,
                                                   r.redemption_id, r.points_required))
           /\ rewards' = StockTaken(rewards, r.reward_id)
    /\ nreq' = nreq + 1
    /\ pending' = [pending EXCEPT ![w] = Absent]
    /\ UNCHANGED <<leads, created_points, competitions, now, organizations, projects,
                   response>>
    /\ UNCHANGED tokens

RedeemRewardRead ==
    \E w \in Workers, a \in Users, reward_id \in Rewards : redeem_reward_read(w, a, reward_id)

DeductUserPointsRead == \E w \in Workers : deduct_user_points_read(w)

RedeemRewardWrite == \E w \in Workers : redeem_reward_write(w)

NextOverlappingRedemptions ==
    \/ RedeemRewardRead
    \/ DeductUserPointsRead
    \/ RedeemRewardWrite

SpecOverlappingRedemptions == InitRedemptions /\ [][NextOverlappingRedemptions]_vars

\* ------------------------------------------------------------ sessions
\* login issues a token to an active user who gives the password; a request
\* is made with a token, from which get_current_user_from_token reads the
\* user stored.  A token ends when it expires.

Unauthorized == "401_UNAUTHORIZED"

LoginPasswords == {"pw0", "wrong"}

login_status(username, password) ==
    IF username \notin DOMAIN users THEN Unauthorized
    ELSE IF users[username].password # password THEN Unauthorized
    ELSE IF ~users[username].is_active THEN Unauthorized
    ELSE OK

login(username, password) ==
    IF login_status(username, password) # OK
    THEN UNCHANGED vars
    ELSE /\ tokens' = tokens \cup {username}
         /\ UNCHANGED <<users, leads, created_points, nreq, organizations, projects,
                        response>>
         /\ UNCHANGED reward_vars

\* The token of username passes ACCESS_TOKEN_EXPIRE_MINUTES.
token_expires(username) ==
    /\ username \in tokens
    /\ tokens' = tokens \ {username}
    /\ UNCHANGED <<users, leads, created_points, nreq, organizations, projects,
                   response>>
    /\ UNCHANGED reward_vars

\* get_current_user_from_token: the token is decoded and the user looked up
\* by its id; a user that is not stored is answered with 401.
get_current_user_from_token_status(username) ==
    IF username \notin tokens THEN Unauthorized
    ELSE IF username \notin DOMAIN users THEN Unauthorized
    ELSE OK

\* The requests explored with a token, each by the holder a.
RequestBy(a) ==
    \/ create_lead_with_notifications(a)
    \/ \E l \in 1..MaxLeads, approve \in BOOLEAN : approve_lead(a, l, approve, None, None)
    \/ \E t \in Users : delete_user(a, t)
    \/ \E t \in Users : reactivate_user(a, t)

Login == \E u \in Users \cup {"ghost"}, pw \in LoginPasswords : login(u, pw)

TokenExpires == \E u \in Users : token_expires(u)

AuthenticatedRequest ==
    \E a \in Users :
        /\ get_current_user_from_token_status(a) = OK
        /\ RequestBy(a)
        /\ tokens' = tokens
        /\ UNCHANGED <<organizations, projects, response>>
        /\ UNCHANGED reward_vars

NextSessions ==
    /\ \/ Login
       \/ TokenExpires
       \/ AuthenticatedRequest
    /\ UNCHANGED comp_vars

SpecSessions == Init /\ [][NextSessions]_vars

\* ------------------------------------------------------------ lead reads
\* The endpoints that read leads build a filter from the caller's role; each
\* is given here by the set of the leads it returns or counts.

\* [u["username"] for u in users_collection.find({"manager_id": username})]
assigned_canvassers(username) ==
    {u \in DOMAIN users : users[u].manager_id = username}

\* The leads of the caller's organization.
InOrganization(current_user) ==
    {l \in 1..Len(leads) : leads[l].organization_id = users[current_user].organization_id}

CreatedBy(S) == {l \in 1..Len(leads) : leads[l].created_by \in S}

\* The manager's filter with created_by = {"$in": []} when nobody is assigned.
list_leads(current_user) ==
    CASE users[current_user].role = "super_admin" -> 1..Len(leads)
      [] users[current_user].role = "admin_manager" -> InOrganization(current_user)
      [] users[current_user].role = "manager" ->
            InOrganization(current_user) \cap CreatedBy(assigned_canvassers(current_user))
      [] OTHER -> CreatedBy({current_user})

\* The manager's filter with created_by only "if assigned_canvassers".
get_lead_stats(current_user) ==
    CASE users[current_user].role = "super_admin" -> 1..Len(leads)
      [] users[current_user].role = "admin_manager" -> InOrganization(current_user)
      [] users[current_user].role = "manager" ->
            IF assigned_canvassers(current_user) # {}
            THEN InOrganization(current_user)
                    \cap CreatedBy(assigned_canvassers(current_user))
            ELSE InOrganization(current_user)
      [] OTHER -> CreatedBy({current_user})

\* The same filter as get_lead_stats, for a query that every lead matches.
search_leads(current_user) == get_lead_stats(current_user)

\* The same filter again; a super_admin has no branch and reads every lead.
export_leads(current_user) ==
    CASE users[current_user].role = "admin_manager" -> InOrganization(current_user)
      [] users[current_user].role = "manager" ->
            IF assigned_canvassers(current_user) # {}
            THEN InOrganization(current_user)
                    \cap CreatedBy(assigned_canvassers(current_user))
            ELSE InOrganization(current_user)
      [] users[current_user].role = "canvasser" -> CreatedBy({current_user})
      [] OTHER -> 1..Len(leads)

\* The pending leads, for the roles that may approve; nobody assigned gives
\* created_by = {"$in": []}.
get_pending_approvals(current_user) ==
    LET pending_leads == {l \in 1..Len(leads) : leads[l].lead_status = "pending"}
    IN  CASE users[current_user].role = "super_admin" -> pending_leads
          [] users[current_user].role = "admin_manager" ->
                pending_leads \cap InOrganization(current_user)
          [] users[current_user].role = "manager" ->
                pending_leads \cap InOrganization(current_user)
                    \cap CreatedBy(assigned_canvassers(current_user))
          [] OTHER -> {}

\* ------------------------------------------------------------ claims

Stored(l) == l \in 1..Len(leads)

\* Points and points_history of every user are as before the step.
PointsUnchanged ==
    \A u \in Users :
        /\ users'[u].points = users[u].points
        /\ users'[u].points_history = users[u].points_history

\* A request changed the store in this step.
StoreChanged == nreq' # nreq

\* Some request of approve_lead by a on lead l makes this step.
ApproveStep(a, l) ==
    /\ StoreChanged
    /\ \/ \E n \in ApprovalNotes : approve_lead(a, l, TRUE, None, n)
       \/ \E r \in RejectionReasons : approve_lead(a, l, FALSE, r, None)

\* C1, as claimed: approve_lead on a lead that is not pending is answered
\* with InvalidState (400) whoever calls, and changes neither the lead nor
\* any user's points.
C1_Status_Original ==
    \A a \in Users, l \in 1..MaxLeads :
        (Stored(l) /\ leads[l].lead_status # "pending")
            => approve_lead_status(a, l) = BadRequest

C1_Effect ==
    StoreChanged =>
    \A a \in Users, l \in 1..MaxLeads :
        (Stored(l) /\ leads[l].lead_status # "pending" /\ ApproveStep(a, l))
            => (leads' = leads /\ PointsUnchanged)

\* A lead that has left pending never returns to it.
C1_StaysDecided ==
    StoreChanged =>
    \A l \in 1..MaxLeads :
        (Stored(l) /\ leads[l].lead_status # "pending")
            => leads'[l].lead_status # "pending"

C1_Status ==
    \A a \in Users, l \in 1..MaxLeads :
        (Stored(l) /\ leads[l].lead_status # "pending")
            => approve_lead_status(a, l) =
                  IF users[a].role \in {"super_admin", "admin_manager", "manager"}
                  THEN BadRequest ELSE Forbidden

FloorPercent(amount) == amount \div 100

\* amount x 0.01 with its fraction dropped: the integer nearest to zero of
\* the two that enclose it.
TowardZeroPercent(amount) ==
    IF amount >= 0
    THEN CHOOSE q \in 0..amount : q * 100 <= amount /\ amount < (q + 1) * 100
    ELSE -(CHOOSE q \in 0..(-amount) : q * 100 <= -amount /\ -amount < (q + 1) * 100)

\* Points gained since the user was created.
Gained(u) == users[u].points - created_points[u]

\* The scenario of C2 with the commission computed by Percent: after each of
\* the three requests the lead's status, the creator's gain and the number of
\* history entries are as stated.
C2_Scenario(Percent(_)) ==
    /\ nreq = 0 => \A u \in Users : Gained(u) = 0 /\ users[u].points_history = <<>>
    /\ nreq >= 1 =>
        LET lead == leads[1]
            C == lead.created_by
            hist == users[C].points_history
        IN  /\ nreq = 1 =>
                /\ lead.lead_status = "pending"
                /\ Gained(C) = 10
                /\ Len(hist) = 1
            /\ nreq = 2 =>
                /\ lead.lead_status = "approved"
                /\ lead.approved_by = users[C].manager_id
                /\ Gained(C) = 10 + 25
                /\ Len(hist) = 2
            /\ nreq = 3 =>
                /\ lead.lead_status = "sold"
                /\ Gained(C) = 10 + 25 + Percent(lead.sale_amount[1])
                /\ lead.sale_amount[1] = 1000 => Gained(C) = 45
                /\ Len(hist) = 3
                /\ hist[3].points = Percent(lead.sale_amount[1])

SoldStep(a, l, amt, d) ==
    /\ StoreChanged
    /\ Stored(l)
    /\ leads'[l].sale_amount = Some(amt)
    /\ mark_lead_sold_status(a, l) = OK
    /\ mark_lead_sold(a, l, amt, d)

\* An accepted mark_lead_sold for amount A on a lead whose creator C exists
\* adds Percent(A) to C.points, appends one history entry of that delta to C,
\* and changes no other user's points or history.
C3_Commission(Percent(_)) ==
    StoreChanged =>
    \A a \in Users, l \in 1..MaxLeads, amt \in SaleAmounts, d \in SaleDates :
        (SoldStep(a, l, amt, d) /\ leads[l].created_by \in Users) =>
            LET C == leads[l].created_by
                before == users[C].points_history
                after == users'[C].points_history
            IN  /\ users'[C].points = users[C].points + Percent(amt)
                /\ Len(after) = Len(before) + 1
                /\ SubSeq(after, 1, Len(before)) = before
                /\ after[Len(after)].points = Percent(amt)
                /\ \A u \in Users \ {C} :
                      /\ users'[u].points = users[u].points
                      /\ users'[u].points_history = users[u].points_history

C4_Reject ==
    [][StoreChanged =>
       \A a \in Users, l \in 1..MaxLeads, r \in RejectionReasons :
          (Stored(l) /\ approve_lead_status(a, l) = OK
                        /\ approve_lead(a, l, FALSE, r, None))
              => /\ leads'[l].lead_status = "cancelled"
                 /\ leads'[l].rejection_reason = r
                 /\ PointsUnchanged]_vars

\* C4 witness: a canvasser's lead rejected with a reason; its creator holds
\* the creation points alone.
C4_Witness ==
    \E l \in 1..MaxLeads :
        /\ Stored(l)
        /\ leads[l].lead_status = "cancelled"
        /\ leads[l].rejection_reason = "duplicate"
        /\ users[leads[l].created_by].points = 10
        /\ Len(users[leads[l].created_by].points_history) = 1

\* C5: a mark-sold request on a cancelled lead changes nothing: the lead
\* stays cancelled and no commission is credited.
C5_Claim ==
    [][StoreChanged =>
       \A a \in Users, l \in 1..MaxLeads, amt \in SaleAmounts, d \in SaleDates :
          (Stored(l) /\ leads[l].lead_status = "cancelled"
                     /\ mark_lead_sold(a, l, amt, d))
              => (leads'[l].lead_status = "cancelled" /\ PointsUnchanged)]_vars

\* C6: the lead a create request stores is approved, approved_by its creator
\* and with an approval_timestamp when the creator is a super_admin or an
\* admin_manager; pending, with neither, when the creator is a canvasser.
C6_InitialState ==
    [][StoreChanged =>
       \A a \in Users :
          (create_lead_status(a) = OK /\ create_lead_with_notifications(a)) =>
              LET new == leads'[Len(leads')]
              IN  /\ Len(leads') = Len(leads) + 1
                  /\ new.created_by = a
                  /\ users[a].role \in {"super_admin", "admin_manager"} =>
                        /\ new.lead_status = "approved"
                        /\ new.approved_by = a
                        /\ new.approval_timestamp # None
                  /\ users[a].role = "canvasser" =>
                        /\ new.lead_status = "pending"
                        /\ new.approved_by = None
                        /\ new.approval_timestamp = None]_vars

\* C6 witness: a lead just created by an admin_manager beside one just
\* created by a canvasser.
C6_Witness ==
    \E i, j \in 1..MaxLeads :
        /\ Stored(i) /\ Stored(j)
        /\ users[leads[i].created_by].role = "admin_manager"
        /\ leads[i].lead_status = "approved"
        /\ leads[i].approved_by = leads[i].created_by
        /\ leads[i].approval_timestamp = "now"
        /\ users[leads[j].created_by].role = "canvasser"
        /\ leads[j].lead_status = "pending"
        /\ leads[j].approved_by = None
        /\ leads[j].approval_timestamp = None
        /\ nreq = 2

\* The role changes C7 allows: any by a super_admin, to manager or canvasser
\* by an admin_manager.
C7_Allowed(actor_role, new_role) ==
    \/ actor_role = "super_admin"
    \/ actor_role = "admin_manager" /\ new_role \in {"manager", "canvasser"}

C7_Status ==
    \A a \in Users, t \in Users, req \in UserUpdates :
        (req.role # None /\ req.role # users[t].role
                         /\ ~C7_Allowed(users[a].role, req.role))
            => update_user_status(a, t, req) = Forbidden

C7_Effect ==
    StoreChanged =>
    \A t \in Users :
        users'[t].role # users[t].role =>
            \E a \in Users, req \in UserUpdates :
                /\ update_user(a, t, req)
                /\ req.role = users'[t].role
                /\ C7_Allowed(users[a].role, req.role)

\* C7: a user's role changes only by an update_user request of a super_admin,
\* or of an admin_manager assigning manager or canvasser; every other
\* role-change request is answered with 403 and changes nothing.
C7_RoleChange == []C7_Status /\ [][C7_Effect]_vars

\* C7 witness: a canvasser made manager, in a state where an admin_manager's
\* request to make a user admin_manager is answered with 403.
C7_Witness ==
    /\ users["can1"].role = "manager"
    /\ users["adm1"].role = "admin_manager"
    /\ update_user_status("adm1", "can1", [NoUpdate EXCEPT !.role = "canvasser"]) = OK
    /\ update_user_status("adm1", "can1", [NoUpdate EXCEPT !.role = "admin_manager"])
          = Forbidden
    /\ update_user_status("mgr1", "mgr1", [NoUpdate EXCEPT !.role = "canvasser"])
          = Forbidden

\* C8: no request of an admin_manager to update, deactivate, reactivate or
\* reset the password of another user who is a super_admin or an
\* admin_manager changes that user.
C8_Claim ==
    [][StoreChanged =>
       \A a \in Users, t \in Users :
          (/\ users[a].role = "admin_manager"
           /\ t # a
           /\ users[t].role \in {"super_admin", "admin_manager"}
           /\ \/ \E req \in UserUpdates : update_user(a, t, req)
              \/ delete_user(a, t)
              \/ reactivate_user(a, t)
              \/ \E pw \in NewPasswords : reset_user_password(a, t, pw))
              => users'[t] = users[t]]_vars

\* The leads C9 lets an admin_manager or manager act on: those of the actor's
\* organization and, for a manager, created by one of the manager's
\* canvassers.
C9_MayAct(a, lead) ==
    /\ lead.organization_id = users[a].organization_id
    /\ users[a].role = "manager" =>
          (lead.created_by \in Users /\ users[lead.created_by].manager_id = a)

\* C9: an approve, reject or mark-superstar request of an admin_manager or
\* manager on any other lead changes neither the lead nor any points.
C9_Claim ==
    [][StoreChanged =>
       \A a \in Users, l \in 1..MaxLeads :
          (/\ Stored(l)
           /\ users[a].role \in {"admin_manager", "manager"}
           /\ ~C9_MayAct(a, leads[l])
           /\ \/ ApproveStep(a, l)
              \/ \E p \in Priorities : mark_superstar_lead(a, l, p))
              => (leads' = leads /\ PointsUnchanged)]_vars

\* C10: for a manager M and a lead created by a canvasser C,
\* check_lead_access holds exactly when C's stored manager_id is M and M, C
\* and the lead are of one organization; and whenever C's manager_id is not
\* M, M's mark-sold request on the lead is answered with 403.
C10_Claim ==
    \A M \in Users, l \in 1..MaxLeads :
        (Stored(l) /\ users[M].role = "manager"
                   /\ users[leads[l].created_by].role = "canvasser") =>
            LET C == leads[l].created_by
            IN  /\ check_lead_access(M, leads[l]) <=>
                      /\ users[C].manager_id = M
                      /\ users[M].organization_id = users[C].organization_id
                      /\ users[C].organization_id = leads[l].organization_id
                /\ users[C].manager_id # M =>
                      mark_lead_sold_status(M, l) = Forbidden

\* What C11 lets a creator store: a role of the creator's allowed set and,
\* for an admin_manager or manager creator, the creator's organization.
C11_Allowed(creator, new_role, new_org) ==
    /\ \/ creator.role = "super_admin"
       \/ creator.role = "admin_manager" /\ new_role \in {"manager", "canvasser"}
       \/ creator.role = "manager" /\ new_role = "canvasser"
    /\ creator.role \in {"admin_manager", "manager"} =>
          new_org = creator.organization_id

\* A step that stores a new user is the step of a create request, and of
\* allowed create requests only; it changes no other user.
C11_Stores ==
    (DOMAIN users' \ DOMAIN users # {}) =>
        /\ \E a \in DOMAIN users, req \in UserCreates : create_user(a, req)
        /\ \A a \in DOMAIN users, req \in UserCreates :
              create_user(a, req) =>
                  LET new == users'[req.username]
                  IN  /\ DOMAIN users' \ DOMAIN users = {req.username}
                      /\ create_user_status(a, req) = OK
                      /\ new.role = req.role
                      /\ C11_Allowed(users[a], new.role, new.organization_id)
                      /\ (users[a].role = "manager" /\ new.role = "canvasser") =>
                             new.manager_id = a
                      /\ \A u \in DOMAIN users : users'[u] = users[u]

C11_Denied ==
    \A a \in DOMAIN users, req \in UserCreates :
        LET org == IF users[a].role = "manager" /\ req.organization_id = None
                   THEN users[a].organization_id ELSE req.organization_id
        IN  ~C11_Allowed(users[a], req.role, org) =>
                create_user_status(a, req) \in {Forbidden, BadRequest}

\* C11: create_user stores a user only if the role is in the creator's
\* allowed set and, for admin_manager and manager creators, the stored
\* organization_id is the creator's; a canvasser created by a manager gets
\* manager_id = that manager; any other request is denied and stores nothing.
C11_CreateUser == []C11_Denied /\ [][C11_Stores]_vars

\* C11 witness: a manager has created a canvasser, stored with the manager's
\* organization and manager_id, while the manager's request for a manager
\* and an admin_manager's request for another organization are denied.
C11_Witness ==
    /\ "new1" \in DOMAIN users
    /\ users["new1"].created_by = "mgr1"
    /\ users["new1"].role = "canvasser"
    /\ users["new1"].manager_id = "mgr1"
    /\ users["new1"].organization_id = "org_1"
    /\ "adm1" \in DOMAIN users /\ users["adm1"].role = "admin_manager"
    /\ create_user_status("adm1", [username |-> "new2", role |-> "manager",
                                   organization_id |-> "org_2", manager_id |-> None])
          = Forbidden

\* C17: every canvasser whose manager_id is set references a stored user
\* whose role is manager and whose organization_id is the canvasser's.
C17_Claim ==
    \A c \in DOMAIN users :
        (users[c].role = "canvasser" /\ users[c].manager_id # None) =>
            /\ users[c].manager_id \in DOMAIN users
            /\ users[users[c].manager_id].role = "manager"
            /\ users[users[c].manager_id].organization_id = users[c].organization_id

\* The entries of a points_history for one reason and one lead.
Awards(hist, reason, lead_id) ==
    Cardinality({i \in 1..Len(hist) :
                    hist[i].reason = reason /\ hist[i].lead_id = lead_id})

\* C12: in every step a lead's approval, sale or superstar marking and the
\* award to its creator are recorded both or neither, also when the request
\* fails between its two writes.
C12_Claim ==
    [][StoreChanged =>
       \A l \in 1..MaxLeads :
          (Stored(l) /\ leads[l].created_by \in Users) =>
              LET C == leads[l].created_by
                  gained(reason) ==
                      Awards(users'[C].points_history, reason, leads[l].lead_id)
                        > Awards(users[C].points_history, reason, leads[l].lead_id)
                  becomes(st) ==
                      leads'[l] # leads[l] /\ leads'[l].lead_status = st
              IN  /\ becomes("approved") <=> gained("Lead approved")
                  /\ becomes("sold") => gained("Lead sold")
                  /\ gained("Lead sold") => leads'[l].lead_status = "sold"
                  /\ becomes("superstar") => gained("Superstar lead")
                  /\ gained("Superstar lead") => leads'[l].lead_status = "superstar"]_vars

\* The 'Won competition' entries stored for competition c, over all users.
PrizeEntries(c) ==
    {ui \in Users \X (1..(MaxReq + 1)) :
        /\ ui[2] <= Len(users[ui[1]].points_history)
        /\ users[ui[1]].points_history[ui[2]].reason = "Won competition"
        /\ users[ui[1]].points_history[ui[2]].detail = Some(c)}

\* C13: the prize of a competition is credited once: however many
\* leaderboard reads see it active and past its end_date, also side by side,
\* a single 'Won competition' entry is stored (each entry is written by the
\* update_one that adds prize_points to the winner's points).
C13_Claim ==
    \A c \in 1..Len(competitions) : Cardinality(PrizeEntries(c)) <= 1

\* The status the dates of a competition give at the current time.
DerivedStatus(competition) ==
    IF now < competition.start_date THEN "upcoming"
    ELSE IF now > competition.end_date THEN "completed"
    ELSE "active"

\* C14: the status a read reports for a competition is the status its dates
\* give at the current time.
C14_Claim ==
    \A c \in 1..Len(competitions) :
        get_competition_details(c).status = DerivedStatus(competitions[c])

\* C15: no stored competition has fewer effective participants than its
\* min_participants; with mode specific, fewer selected_participants.
C15_Claim ==
    \A c \in 1..Len(competitions) :
        Len(get_competition_participants(competitions[c]))
            >= competitions[c].min_participants

\* C16: with mode specific every stored selected participant is an active
\* user of the competition's organization, as the validation of the writing
\* request finds it (no request of this specification changes a user's
\* organization or deactivates one).
C16_Claim ==
    \A c \in 1..Len(competitions) :
        (/\ competitions[c].participant_selection_mode = "specific"
         /\ competitions[c].selected_participants # Absent)
            => AllValid(competitions[c].selected_participants[1],
                        competitions[c].organization_id)

\* The sum of the deltas of a points_history.
RECURSIVE SumPoints(_)
SumPoints(hist) ==
    IF hist = <<>> THEN 0 ELSE hist[1].points + SumPoints(Tail(hist))

\* C18: every user's points is >= 0.
C18_Claim == \A u \in Users : users[u].points >= 0

\* C19: a user's points is the points the user was created with plus the
\* sum of the deltas of the user's points_history.
C19_Balance ==
    \A u \in Users :
        users[u].points = created_points[u] + SumPoints(users[u].points_history)

\* C19: every change of a user's points comes with exactly one new
\* points_history entry whose delta is the change, the entries before it are
\* kept, and so the balance holds in every state, for requests served one
\* after the other or side by side.
C19_Claim ==
    /\ []C19_Balance
    /\ [][\A u \in Users :
            users'[u].points # users[u].points =>
                LET old == users[u].points_history
                    new == users'[u].points_history
                IN  /\ Len(new) = Len(old) + 1
                    /\ SubSeq(new, 1, Len(old)) = old
                    /\ new[Len(new)].points = users'[u].points - users[u].points]_vars

\* C20: no accepted request on a lead decreases any user's points.
C20_Claim ==
    [][StoreChanged =>
        ((CreateLead \/ ApproveLead \/ MarkLeadSold \/ MarkSuperstarLead) =>
            \A u \in Users : users'[u].points >= users[u].points)]_vars

\* C21: a creation respects the plan caps of the organization.  A step that
\* stores a new user of an organization is taken only when the organization's
\* max_users is -1 or its active users were fewer than max_users, and a step
\* that stores a new project only when max_projects is -1 or the active
\* projects were fewer than max_projects.
C21_Claim ==
    [][/\ \A u \in DOMAIN users' \ DOMAIN users :
             LET o == users'[u].organization_id
             IN  o \in DOMAIN organizations =>
                     \/ organizations[o].plan_limits.max_users = -1
                     \/ ActiveUsers(o) < organizations[o].plan_limits.max_users
       /\ Len(projects') > Len(projects) =>
             LET o == projects'[Len(projects')].organization_id
             IN  o \in DOMAIN organizations =>
                     \/ organizations[o].plan_limits.max_projects = -1
                     \/ ActiveProjects(o) < organizations[o].plan_limits.max_projects]_vars

\* The project half alone, which create_project keeps.
C21_Projects ==
    [][Len(projects') > Len(projects) =>
             LET o == projects'[Len(projects')].organization_id
             IN  o \in DOMAIN organizations =>
                     \/ organizations[o].plan_limits.max_projects = -1
                     \/ ActiveProjects(o) < organizations[o].plan_limits.max_projects]_vars

\* C22: the superstar marking is an overlay.  A step that writes
\* superstar_info on a lead leaves the lead's primary lifecycle state as it
\* was (pending, approved, sold or cancelled) and keeps sale_amount, sale_date
\* and sold_by.
C22_Claim ==
    [][\A l \in 1..Len(leads) :
          (leads'[l].superstar_info # leads[l].superstar_info) =>
              /\ leads'[l].superstar_info # Absent
              /\ leads'[l].lead_status = leads[l].lead_status
              /\ leads'[l].sale_amount = leads[l].sale_amount
              /\ leads'[l].sale_date = leads[l].sale_date
              /\ leads'[l].sold_by = leads[l].sold_by]_vars

\* C23: lead_id is unique and numbered per organization.  For any sequence
\* or interleaving of create_lead requests, of one organization or several,
\* every request is answered with success and the stored leads have pairwise
\* distinct lead_ids.
C23_Claim ==
    /\ response # InternalError
    /\ \A i, j \in 1..Len(leads) : leads[i].lead_id = leads[j].lead_id => i = j

\* The uniqueness half alone, which the unique index keeps.
C23_Distinct ==
    \A i, j \in 1..Len(leads) : leads[i].lead_id = leads[j].lead_id => i = j

\* C24: a failure of the notification dispatcher is not fatal.  A create_lead
\* request that has stored its lead and credited the creation points answers
\* with success, whether or not notify_organization_users and
\* notify_competition_participants delivered.
C24_Claim ==
    [][Len(leads') > Len(leads) => response' = OK]_vars

\* C25: the sale commission is credited at most once per lead.  Over any
\* sequence of mark_lead_sold requests the creator's points_history holds at
\* most one "Lead sold" entry for each lead, and a mark-sold on a lead that is
\* sold already changes no points.
C25_Claim ==
    /\ [](\A l \in 1..Len(leads), u \in Users :
            Awards(users[u].points_history, "Lead sold", leads[l].lead_id) <= 1)
    /\ [][\A l \in 1..Len(leads) :
             (leads[l].lead_status = "sold" /\ leads'[l] # leads[l]
              /\ leads'[l].lead_status = "sold") => PointsUnchanged]_vars

\* C26: for any interleaving of approve requests on one pending lead the
\* creator is credited the approval bonus at most once: no user's
\* points_history holds two "Lead approved" entries of the same lead.
C26_Claim ==
    \A l \in 1..Len(leads), u \in Users :
        Awards(users[u].points_history, "Lead approved", leads[l].lead_id) <= 1

\* The refund entries of one redemption in a points_history.
Refunds(hist, redemption_id) ==
    Cardinality({i \in 1..Len(hist) :
                    hist[i].action = "refund" /\ hist[i].detail = Some(redemption_id)})

\* C27: over any sequence of update_redemption_status requests the points
\* refunded for a redemption never exceed its points_used, and the stock of
\* its reward is restored at most once: the stock never exceeds the stock
\* the reward started with.
C27_Claim ==
    /\ \A r \in 1..Len(redemptions) :
          Refunds(users[redemptions[r].username].points_history,
                  redemptions[r].redemption_id) * redemptions[r].points_used
              <= redemptions[r].points_used
    /\ \A reward_id \in Rewards :
          rewards[reward_id].stock_quantity # Absent =>
              rewards[reward_id].stock_quantity[1] <= InitRewards[reward_id].stock_quantity[1]

\* The points_used of the first n redemptions that are of user u.
RECURSIVE SpentBy(_, _)
SpentBy(u, n) ==
    IF n = 0 THEN 0
    ELSE SpentBy(u, n - 1)
         + (IF redemptions[n].username = u THEN redemptions[n].points_used ELSE 0)

\* C28: for any interleaving of redeem_reward requests no deduction is lost:
\* every user's points are the points held at the start less the cost of the
\* user's redemptions, that cost never exceeds the points held, and the stock
\* of a limited reward never drops below 0.
C28_Claim ==
    /\ \A u \in Users :
          /\ users[u].points = created_points[u] - SpentBy(u, Len(redemptions))
          /\ SpentBy(u, Len(redemptions)) <= created_points[u]
    /\ \A reward_id \in Rewards :
          rewards[reward_id].stock_quantity # Absent =>
              rewards[reward_id].stock_quantity[1] >= 0

\* C29: once a user is deactivated, a request made by that user with a token
\* issued before the deactivation is rejected and changes no state, until the
\* user is reactivated: no step that changes the store is a request of a
\* token holder who is not active.
C29_Claim ==
    [][\A a \in Users :
          (a \in tokens /\ ~users[a].is_active) => ~(StoreChanged /\ RequestBy(a))]_vars

\* The leads a manager may read: those of the manager's organization created
\* by a user whose manager_id is the manager's username.
ManagerScope(m) ==
    {l \in 1..Len(leads) :
        /\ leads[l].organization_id = users[m].organization_id
        /\ leads[l].created_by \in DOMAIN users
        /\ users[leads[l].created_by].manager_id = m}

\* C30: for a manager every lead-reading endpoint returns or counts only
\* leads of the manager's organization created by the canvassers assigned to
\* the manager, and no lead when nobody is assigned.
C30_Claim ==
    \A m \in DOMAIN users :
        users[m].role = "manager" =>
            /\ list_leads(m) \subseteq ManagerScope(m)
            /\ get_lead_stats(m) \subseteq ManagerScope(m)
            /\ search_leads(m) \subseteq ManagerScope(m)
            /\ export_leads(m) \subseteq ManagerScope(m)
            /\ get_pending_approvals(m) \subseteq ManagerScope(m)

\* The two endpoints that filter by the empty list keep the scope.
C30_Listed ==
    \A m \in DOMAIN users :
        users[m].role = "manager" =>
            /\ list_leads(m) \subseteq ManagerScope(m)
            /\ get_pending_approvals(m) \subseteq ManagerScope(m)

====
